---- MODULE Spec2Model ----
(***************************************************************************)
(* Model of memflow-native's process / memory-layout introspection:        *)
(*   linux/process.rs  LinuxProcess  (module list, module resolution,      *)
(*                                    mapped memory ranges, Clone)         *)
(*   windows/mod.rs    WindowsOs     (process list, process resolution,    *)
(*                                    kernel-module stubs, Clone)          *)
(* A build contains one of the two platforms; `platform` says which.       *)
(***************************************************************************)
EXTENDS Integers, Sequences, FiniteSets, TLC

VARIABLES
    platform,            \* "linux" | "windows": the cfg(target_os) of the build
    overflow_checks,     \* build profile: integer overflow panics (TRUE) or wraps (FALSE)
    info,                \* LinuxProcess.info (ProcessInfo) / WindowsOs.info (OsInfo)
    maps,                \* what /proc/<pid>/maps holds now (the raw-mapping source)
    snapshot,            \* what the Toolhelp process snapshot holds now
    alive,               \* the handles that exist
    cached_maps,         \* LinuxProcess.cached_maps, per handle
    cached_module_maps,  \* LinuxProcess.cached_module_maps, per handle
    cached_processes,    \* WindowsOs.cached_processes, per handle
    cached_modules,      \* WindowsOs.cached_modules, per handle
    last_enum,           \* history: what the latest process enumeration of a handle recorded
    last                 \* the latest call: its arguments, callback log and outcome

vars == << platform, overflow_checks, info, maps, snapshot, alive, cached_maps,
           cached_module_maps, cached_processes, cached_modules, last_enum, last >>

-----------------------------------------------------------------------------
(* Bounds *)

\* addresses of the mappings and windows of the range/module specifications: 0..MaxAddr
MaxAddr == 3
\* mappings per snapshot in the range/module specifications
MaxMaps == 3
\* gap tolerances tried: -1..MaxGap
MaxGap == 1
\* the callback stops at its k-th invocation, k in 1..MaxStop, or never (0)
MaxStop == 2
\* umem/Address are u64 in the source; the model keeps the wrap-around at 2^UmemBits
UmemBits == 16
\* mappings per snapshot in the handle life-cycle specification
MaxMods == 2
\* processes per snapshot
MaxProcs == 2
\* cap on the entries the handles' cached_processes hold together
MaxCache == 2
\* handles: 1 is the original, 2 its clone
Handles == {1, 2}
UmemModulus == 2 ^ UmemBits

-----------------------------------------------------------------------------
(* Values *)

Archs == {"X86_64", "X86_32"}
NoValue == [none |-> TRUE]

\* ErrorKind values the two files construct
UnableToReadDir == "UnableToReadDir"
NotFound == "NotFound"
Unknown == "Unknown"
NotImplemented == "NotImplemented"
ErrorKinds == {UnableToReadDir, NotFound, Unknown, NotImplemented}

\* procfs MMapPath: Path(buf) carries the path's components
PathOf(file) == [kind |-> "Path", buf |-> <<"lib", file>>]
Anonymous == [kind |-> "Anonymous", buf |-> <<>>]
Heap == [kind |-> "Heap", buf |-> <<>>]
Stack == [kind |-> "Stack", buf |-> <<>>]

\* procfs MemoryMap
MemoryMap(s, e, perms, offset, dev, inode, pathname) ==
    [address |-> <<s, e>>, perms |-> perms, offset |-> offset, dev |-> dev,
     inode |-> inode, pathname |-> pathname]

\* the attributes of a mapping other than its address range
Attr(perms, offset, dev, inode, pathname) ==
    [perms |-> perms, offset |-> offset, dev |-> dev, inode |-> inode,
     pathname |-> pathname]

\* /proc/<pid>/maps lists mappings in ascending address order, none empty, none
\* overlapping: all such lists of at most n mappings within lo..hi
RECURSIVE MapLists(_, _, _, _)
MapLists(lo, hi, n, attrs) ==
    IF n = 0 THEN {<<>>}
    ELSE {<<>>} \cup
         UNION { UNION { { <<MemoryMap(s, e, a.perms, a.offset, a.dev, a.inode, a.pathname)>>
                            \o rest : rest \in MapLists(e, hi, n - 1, attrs) }
                         : a \in attrs }
                 : <<s, e>> \in { p \in (lo..hi) \X (lo..hi) : p[1] < p[2] } }

Min(a, b) == IF a < b THEN a ELSE b
Max(a, b) == IF a > b THEN a ELSE b

-----------------------------------------------------------------------------
(* Integer arithmetic of the build *)

\* `x as umem` of an imem
AsUmem(x) == x % UmemModulus

\* umem - umem: the wrapped difference, and whether it overflowed
UmemSub(a, b) == [val |-> (a - b) % UmemModulus, ovf |-> a < b]

-----------------------------------------------------------------------------
(* The callback protocol *)

\* The caller's callback: it answers "stop" (FALSE) at its stopAt-th invocation
\* and "continue" at every other one; stopAt = 0 never stops.
CallbackRet(stopAt, k) == k # stopAt

\* one invocation of the callback, appended to the log of the call
Invoke(calls, item, stopAt) ==
    Append(calls, [item |-> item, ret |-> CallbackRet(stopAt, Len(calls) + 1)])

\* a feed that ignores the callback's answer
NeverStopped(calls) == FALSE

Stopped(calls) == Len(calls) > 0 /\ ~calls[Len(calls)].ret

\* Iterator::feed_into / take_while(callback.call): hand the items over one by
\* one and stop after the first "stop"
RECURSIVE FeedFrom(_, _, _, _)
FeedFrom(items, i, calls, stopAt) ==
    IF i > Len(items) \/ Stopped(calls) THEN calls
    ELSE FeedFrom(items, i + 1, Invoke(calls, items[i], stopAt), stopAt)

FeedInto(items, stopAt) == FeedFrom(items, 1, <<>>, stopAt)

Delivered(calls) == [i \in 1..Len(calls) |-> calls[i].item]

-----------------------------------------------------------------------------
(* LinuxProcess::mapped_mem_range: the iterator chain *)

\* a window test that lets a mapping through when it only touches the window
InWindowInclusive(map, start, end) == map.address[2] >= start /\ map.address[1] <= end

\* .filter(|map| map.address.1 > start && map.address.0 < end)
InWindow(map, start, end) == map.address[2] > start /\ map.address[1] < end

\* a permission test that accepts READ or EXECUTE
ReadableOrExecutable(map) == "r" \in map.perms \/ "x" \in map.perms

\* .filter(|m| m.perms.contains(MMPermissions::READ))
Readable(map) == "r" \in map.perms

\* PageType::empty().noexec(!EXECUTE).write(WRITE)
PageTypeOf(perms) == [noexec |-> "x" \notin perms, write |-> "w" \in perms]

\* .map(|map| (address.0, address.1 - address.0, PageType ...)); ovf records
\* that computing the element overflowed an integer
ToRange(map) ==
    [base |-> map.address[1], size |-> map.address[2] - map.address[1],
     page_type |-> PageTypeOf(map.perms), ovf |-> FALSE]

\* if s < start { let diff = start - s; (start, sz - diff as umem, perms) }
ClipLower(r, start) ==
    IF r.base < start
    THEN LET d == UmemSub(r.size, AsUmem(start - r.base))
         IN  [r EXCEPT !.base = start, !.size = d.val, !.ovf = r.ovf \/ d.ovf]
    ELSE r

\* if s + sz > end { let diff = s - end; (s, sz - diff as umem, perms) }
ClipUpper(r, end) ==
    IF r.base + r.size > end
    THEN LET d == UmemSub(r.size, AsUmem(r.base - end))
         IN  [r EXCEPT !.size = d.val, !.ovf = r.ovf \/ d.ovf]
    ELSE r

\* the element the chain hands to coalesce for one raw mapping
Clipped(map, start, end) == ClipUpper(ClipLower(ToRange(map), start), end)

\* gap_size >= 0 && a.0 + a.1 + gap_size as umem >= b.0 && a.2 == b.2
RangeJoinable(a, b, gap) ==
    /\ gap >= 0
    /\ a.base + a.size + AsUmem(gap) >= b.base
    /\ a.page_type = b.page_type

\* Ok((a.0, (b.0 - a.0) as umem + b.1, a.2))
RangeJoin(a, b) ==
    [a EXCEPT !.size = AsUmem(b.base - a.base) + b.size, !.ovf = a.ovf \/ b.ovf]

\* .map(<_>::into): the (Address, umem, PageType) tuple as a MemoryRange
IntoMemoryRange(r) == [base |-> r.base, size |-> r.size, page_type |-> r.page_type]

\* .coalesce(|a, b| ...) over a whole sequence of elements: one accumulator, left
\* to right
RECURSIVE CoalesceRangesFrom(_, _, _, _, _)
CoalesceRangesFrom(rs, i, acc, out, gap) ==
    IF i > Len(rs) THEN Append(out, acc)
    ELSE IF RangeJoinable(acc, rs[i], gap)
         THEN CoalesceRangesFrom(rs, i + 1, RangeJoin(acc, rs[i]), out, gap)
         ELSE CoalesceRangesFrom(rs, i + 1, rs[i], Append(out, acc), gap)

CoalesceRanges(rs, gap) ==
    IF rs = <<>> THEN <<>> ELSE CoalesceRangesFrom(rs, 2, rs[1], <<>>, gap)

\* The chain is lazy: coalesce holds one accumulator and pulls the next element
\* (filtered and clipped when pulled) before it can emit; an emitted range goes to
\* the callback, and the chain is dropped when the callback answers "stop".  An
\* element whose computation overflows panics if the build checks overflow.
\*   src: the filtered raw mappings, i: the next one to pull, acc: the accumulator
RECURSIVE Drive(_, _, _, _, _, _, _, _)
Drive(src, i, acc, calls, gap, start, end, stopAt) ==
    IF i > Len(src)
    THEN [calls |-> IF acc = NoValue THEN calls
                    ELSE Invoke(calls, IntoMemoryRange(acc), stopAt),
          panic |-> FALSE]
    ELSE LET x == Clipped(src[i], start, end) IN
         IF x.ovf /\ overflow_checks THEN [calls |-> calls, panic |-> TRUE]
         ELSE IF acc = NoValue
              THEN Drive(src, i + 1, x, calls, gap, start, end, stopAt)
         ELSE IF RangeJoinable(acc, x, gap)
              THEN Drive(src, i + 1, RangeJoin(acc, x), calls, gap, start, end, stopAt)
         ELSE LET calls2 == Invoke(calls, IntoMemoryRange(acc), stopAt) IN
              IF Stopped(calls2) THEN [calls |-> calls2, panic |-> FALSE]
              ELSE Drive(src, i + 1, x, calls2, gap, start, end, stopAt)

\* the mappings the two filters let through
Eligible(ms, start, end) ==
    SelectSeq(ms, LAMBDA m : InWindow(m, start, end) /\ Readable(m))

RunRanges(ms, gap, start, end, stopAt) ==
    Drive(Eligible(ms, start, end), 1, NoValue, <<>>, gap, start, end, stopAt)

-----------------------------------------------------------------------------
(* LinuxProcess::module_address_list_callback: the module list *)

\* .filter(|map| matches!(map.pathname, MMapPath::Path(_)))
IsPath(map) == map.pathname.kind = "Path"

\* the predicate with the file-offset test the source has commented out
ModuleJoinableWithOffset(m1, m2) ==
    /\ m1.address[2] = m2.address[1]
    /\ m2.offset - m1.offset = m1.address[2] - m1.address[1]
    /\ m1.dev = m2.dev
    /\ m1.inode = m2.inode

\* m1.address.1 == m2.address.0 && m1.dev == m2.dev && m1.inode == m2.inode
ModuleJoinable(m1, m2) ==
    /\ m1.address[2] = m2.address[1]
    /\ m1.dev = m2.dev
    /\ m1.inode = m2.inode

\* Ok(MemoryMap { address: (m1.address.0, m2.address.1), perms: NONE,
\*                offset: m1.offset, dev: m1.dev, inode: m1.inode, pathname: m1.pathname })
ModuleJoin(m1, m2) ==
    MemoryMap(m1.address[1], m2.address[2], {}, m1.offset, m1.dev, m1.inode, m1.pathname)

\* a coalescer that emits a merged record at once and starts afresh with the
\* next mapping, instead of keeping the merged record as its accumulator
RECURSIVE CoalescePairsFrom(_, _, _, _)
CoalescePairsFrom(ms, i, acc, out) ==
    IF i > Len(ms) THEN Append(out, acc)
    ELSE IF ModuleJoinable(acc, ms[i])
         THEN IF i + 1 > Len(ms) THEN Append(out, ModuleJoin(acc, ms[i]))
              ELSE CoalescePairsFrom(ms, i + 2, ms[i + 1], Append(out, ModuleJoin(acc, ms[i])))
         ELSE CoalescePairsFrom(ms, i + 1, ms[i], Append(out, acc))

\* itertools coalesce over the whole list (.collect()): one accumulator, left to right
RECURSIVE CoalesceFrom(_, _, _, _)
CoalesceFrom(ms, i, acc, out) ==
    IF i > Len(ms) THEN Append(out, acc)
    ELSE IF ModuleJoinable(acc, ms[i])
         THEN CoalesceFrom(ms, i + 1, ModuleJoin(acc, ms[i]), out)
         ELSE CoalesceFrom(ms, i + 1, ms[i], Append(out, acc))

CoalesceModules(ms) == IF ms = <<>> THEN <<>> ELSE CoalesceFrom(ms, 2, ms[1], <<>>)

\* the list module_address_list_callback stores in cached_module_maps
ModuleMaps(ms) == CoalesceModules(SelectSeq(ms, IsPath))

\* a gate that compares the filter with the process architecture
ArchGateProcArch(target_arch) == target_arch = "None" \/ info.proc_arch = target_arch

\* .filter(|_| target_arch.is_none() || Some(&self.info().sys_arch) == target_arch)
ArchGate(target_arch) == target_arch = "None" \/ info.sys_arch = target_arch

\* synthetic addresses counted from one
ModuleAddressesFromOne(mods, target_arch) ==
    IF target_arch = "None" \/ info.sys_arch = target_arch
    THEN [i \in 1..Len(mods) |-> [address |-> i, arch |-> info.proc_arch]]
    ELSE <<>>

\* .enumerate() ... ModuleAddressInfo { address: Address::from(i as u64), arch: proc_arch }
ModuleAddresses(mods, target_arch) ==
    IF ArchGate(target_arch)
    THEN [i \in 1..Len(mods) |-> [address |-> i - 1, arch |-> info.proc_arch]]
    ELSE <<>>

\* mmap_path_to_name_string: the path's final component, or the bracketed tag
NameString(pathname) ==
    CASE pathname.kind = "Path" ->
             IF pathname.buf = <<>> THEN "unknown" ELSE pathname.buf[Len(pathname.buf)]
      [] pathname.kind = "Heap" -> "[heap]"
      [] pathname.kind = "Stack" -> "[stack]"
      [] OTHER -> "[anonymous]"

\* mmap_path_to_path_string: the whole path, or the bracketed tag
PathString(pathname) ==
    CASE pathname.kind = "Path" -> pathname.buf
      [] pathname.kind = "Heap" -> <<"[heap]">>
      [] pathname.kind = "Stack" -> <<"[stack]">>
      [] OTHER -> <<"[anonymous]">>

\* the ModuleInfo module_by_address builds from a cached module map
ModuleInfoOf(address, map) ==
    [address |-> address,
     parent_process |-> info.address,
     base |-> map.address[1],
     size |-> map.address[2] - map.address[1],
     name |-> NameString(map.pathname),
     path |-> PathString(map.pathname),
     arch |-> info.sys_arch]

\* the architecture compared with the process architecture
ArchMatchesProcArch(architecture) == architecture = info.proc_arch

\* if architecture != self.info.sys_arch { return Err(NotFound) }
ArchMatches(architecture) == architecture = info.sys_arch

\* the address taken as a one-based index
GetModuleOneBased(mods, address) ==
    IF address \in 1..Len(mods) THEN mods[address] ELSE [none |-> TRUE]

\* self.cached_module_maps.get(address.to_umem() as usize)
GetModule(mods, address) ==
    IF address + 1 \in 1..Len(mods) THEN mods[address + 1] ELSE NoValue

\* LinuxProcess::module_by_address as a function of the cache
ResolveModule(mods, address, architecture) ==
    IF ~ArchMatches(architecture) THEN [result |-> NotFound, value |-> NoValue]
    ELSE LET m == GetModule(mods, address) IN
         IF m = NoValue THEN [result |-> NotFound, value |-> NoValue]
         ELSE [result |-> "Ok", value |-> ModuleInfoOf(address, m)]

-----------------------------------------------------------------------------
(* The record of the latest call *)

NoArgs == [address |-> -1, arch |-> "-", gap |-> 0, start |-> 0, end |-> 0, stopAt |-> 0]

\* source: what the call's query of its source returned (<<>> when it failed or
\* made none), kept for the claims
Call(op, h, args, failed, queries, source, calls, result, value) ==
    [op |-> op, h |-> h, args |-> args, failed |-> failed, queries |-> queries,
     source |-> source, calls |-> calls, result |-> result, value |-> value]

NoCall == Call("none", 0, NoArgs, FALSE, 0, <<>>, <<>>, "Ok", NoValue)

\* a panic ends the program
Running == last.result # "Panic"

-----------------------------------------------------------------------------
(* LinuxProcess: the operations *)

\* a query of the raw-mapping source that reads a failure as an empty list
ProcMapsOrDefault(fail) == [err |-> FALSE, memory_maps |-> IF fail THEN <<>> ELSE maps]

\* self.proc.maps().map_err(|_| Error(OsLayer, UnableToReadDir)); fail: the
\* source cannot be read
ProcMaps(fail) ==
    IF fail THEN [err |-> TRUE, memory_maps |-> <<>>]
    ELSE [err |-> FALSE, memory_maps |-> maps]

\* a store that keeps the list the handle held
KeepCachedMaps(old, fresh) == old

\* self.cached_maps = maps.memory_maps
StoreCachedMaps(old, fresh) == fresh

\* a store that adds the fresh modules to those the handle held
ExtendModuleMaps(old, fresh) == old \o fresh

\* self.cached_module_maps = ... .collect()
StoreModuleMaps(old, fresh) == fresh

\* module_address_list_callback(target_arch, callback); fail: proc.maps() fails
ModuleAddressListCallback(h, target_arch, stopAt, fail) ==
    /\ platform = "linux" /\ Running /\ h \in alive
    /\ LET q == ProcMaps(fail) IN
       IF q.err
       THEN /\ last' = Call("module_address_list_callback", h,
                            [NoArgs EXCEPT !.arch = target_arch, !.stopAt = stopAt],
                            fail, 1, <<>>, <<>>, UnableToReadDir, NoValue)
            /\ UNCHANGED << cached_maps, cached_module_maps >>
       ELSE LET stored == q.memory_maps
                mods == StoreModuleMaps(cached_module_maps[h], ModuleMaps(stored))
            IN  /\ cached_maps' = [cached_maps EXCEPT ![h] = stored]
                /\ cached_module_maps' = [cached_module_maps EXCEPT ![h] = mods]
                /\ last' = Call("module_address_list_callback", h,
                                [NoArgs EXCEPT !.arch = target_arch, !.stopAt = stopAt],
                                fail, 1, q.memory_maps,
                                FeedInto(ModuleAddresses(mods, target_arch), stopAt),
                                "Ok", NoValue)
    /\ UNCHANGED << platform, overflow_checks, info, maps, snapshot, alive,
                    cached_processes, cached_modules, last_enum >>

\* module_by_address(address, architecture)
ModuleByAddress(h, address, architecture) ==
    /\ platform = "linux" /\ Running /\ h \in alive
    /\ LET r == ResolveModule(cached_module_maps[h], address, architecture) IN
       last' = Call("module_by_address", h,
                    [NoArgs EXCEPT !.address = address, !.arch = architecture],
                    FALSE, 0, <<>>, <<>>, r.result, r.value)
    /\ UNCHANGED << platform, overflow_checks, info, maps, snapshot, alive, cached_maps,
                    cached_module_maps, cached_processes, cached_modules, last_enum >>

\* mapped_mem_range(gap_size, start, end, out); it returns nothing ("Unit")
MappedMemRange(h, gap, start, end, stopAt, fail) ==
    /\ platform = "linux" /\ Running /\ h \in alive
    /\ LET args == [NoArgs EXCEPT !.gap = gap, !.start = start, !.end = end,
                                  !.stopAt = stopAt] IN
       IF fail
       THEN /\ last' = Call("mapped_mem_range", h, args, TRUE, 1, <<>>, <<>>, "Unit", NoValue)
            /\ UNCHANGED cached_maps
       ELSE LET stored == StoreCachedMaps(cached_maps[h], maps)
                run == RunRanges(stored, gap, start, end, stopAt)
            IN  /\ cached_maps' = [cached_maps EXCEPT ![h] = stored]
                /\ last' = Call("mapped_mem_range", h, args, FALSE, 1, maps, run.calls,
                                IF run.panic THEN "Panic" ELSE "Unit", NoValue)
    /\ UNCHANGED << platform, overflow_checks, info, maps, snapshot, alive,
                    cached_module_maps, cached_processes, cached_modules, last_enum >>

\* what Clone copies into the new LinuxProcess
CloneCachedMaps(h) == cached_maps[h]
CloneCachedModuleMaps(h) == cached_module_maps[h]

\* impl Clone for LinuxProcess; fail: Process::new(pid) fails and unwrap() panics
CloneProcess(h, c, fail) ==
    /\ platform = "linux" /\ Running /\ h \in alive /\ c \notin alive
    /\ IF fail
       THEN /\ last' = Call("clone", h, NoArgs, TRUE, 1, <<>>, <<>>, "Panic", NoValue)
            /\ UNCHANGED << alive, cached_maps, cached_module_maps >>
       ELSE /\ alive' = alive \cup {c}
            /\ cached_maps' = [cached_maps EXCEPT ![c] = CloneCachedMaps(h)]
            /\ cached_module_maps' = [cached_module_maps EXCEPT ![c] = CloneCachedModuleMaps(h)]
            /\ last' = Call("clone", c, [NoArgs EXCEPT !.address = h], FALSE, 1, <<>>, <<>>,
                            "Ok", NoValue)
    /\ UNCHANGED << platform, overflow_checks, info, maps, snapshot,
                    cached_processes, cached_modules, last_enum >>

-----------------------------------------------------------------------------
(* WindowsOs: the process list *)

\* PROCESSENTRY32W: th32ProcessID and szExeFile (the path's components)
ProcessEntry(pid, exe) == [th32ProcessID |-> pid, szExeFile |-> exe]

\* path.rsplit_once('\\').map(|(_, end)| end).unwrap_or(path)
ExeName(exe) == IF exe = <<>> THEN <<>> ELSE <<exe[Len(exe)]>>

\* the ProcessInfo process_address_list_callback pushes for an entry
ProcessInfoOf(p) ==
    [address |-> p.th32ProcessID,
     pid |-> p.th32ProcessID,
     state |-> "Alive",
     name |-> ExeName(p.szExeFile),
     path |-> p.szExeFile,
     command_line |-> "",
     sys_arch |-> info.arch,
     proc_arch |-> info.arch,
     dtb1 |-> "invalid",
     dtb2 |-> "invalid"]

\* what process_address_list_callback does to cached_processes before it walks
\* the snapshot: nothing (the entries of earlier calls stay)
CacheAtStart(cache) == cache

\* a walk that records every entry of the snapshot before it feeds the callback
WalkEager(entries, i, cache, calls, stopAt) ==
    LET rest == SubSeq(entries, i, Len(entries)) IN
    [cache |-> cache \o [k \in 1..Len(rest) |-> ProcessInfoOf(rest[k])],
     calls |-> FeedFrom([k \in 1..Len(rest) |-> rest[k].th32ProcessID], 1, calls, stopAt)]

\* Process32FirstW / Process32NextW ... .map(|p| { push(ProcessInfo); address })
\* .feed_into(callback): each entry is recorded, then its address delivered, and
\* the walk ends at the first "stop"
RECURSIVE WalkFrom(_, _, _, _, _)
WalkFrom(entries, i, cache, calls, stopAt) ==
    IF i > Len(entries) \/ Stopped(calls) THEN [cache |-> cache, calls |-> calls]
    ELSE LET pi == ProcessInfoOf(entries[i]) IN
         WalkFrom(entries, i + 1, Append(cache, pi), Invoke(calls, pi.address, stopAt), stopAt)

\* the number of entries the caches of the handles hs hold
RECURSIVE SumLen(_, _)
SumLen(caches, hs) ==
    IF hs = {} THEN 0
    ELSE LET g == CHOOSE x \in hs : TRUE IN Len(caches[g]) + SumLen(caches, hs \ {g})

\* self.cached_processes.iter().find(|p| p.address == address).cloned()
FindProcess(cache, address) ==
    LET hits == { i \in 1..Len(cache) : cache[i].address = address } IN
    IF hits = {} THEN [result |-> NotFound, value |-> NoValue]
    ELSE [result |-> "Ok", value |-> cache[CHOOSE i \in hits : \A j \in hits : i <= j]]

\* process_address_list_callback(callback); fail: CreateToolhelp32Snapshot fails
\* (conv_err: Unknown).  A failing Process32FirstW / Process32NextW is read as the
\* end of the list (take_while(|b| b.is_ok())): the walk is that of a shorter
\* snapshot.
ProcessAddressListCallback(h, stopAt, fail) ==
    /\ platform = "windows" /\ Running /\ h \in alive
    /\ LET args == [NoArgs EXCEPT !.stopAt = stopAt] IN
       IF fail
       THEN /\ last' = Call("process_address_list_callback", h, args, TRUE, 1, <<>>, <<>>,
                            Unknown, NoValue)
            /\ UNCHANGED << cached_processes, last_enum >>
       ELSE LET before == CacheAtStart(cached_processes[h])
                w == WalkFrom(snapshot, 1, before, <<>>, stopAt)
            IN  /\ Len(w.cache) + SumLen(cached_processes, Handles \ {h}) <= MaxCache
                /\ cached_processes' = [cached_processes EXCEPT ![h] = w.cache]
                /\ last_enum' = [last_enum EXCEPT ![h] =
                                    SubSeq(w.cache, Len(before) + 1, Len(w.cache))]
                /\ last' = Call("process_address_list_callback", h, args, FALSE, 1,
                                snapshot, w.calls, "Ok", NoValue)
    /\ UNCHANGED << platform, overflow_checks, info, maps, snapshot, alive, cached_maps,
                    cached_module_maps, cached_modules >>

\* process_info_by_address(address)
ProcessInfoByAddress(h, address) ==
    /\ platform = "windows" /\ Running /\ h \in alive
    /\ LET r == FindProcess(cached_processes[h], address) IN
       last' = Call("process_info_by_address", h, [NoArgs EXCEPT !.address = address],
                    FALSE, 0, <<>>, <<>>, r.result, r.value)
    /\ UNCHANGED << platform, overflow_checks, info, maps, snapshot, alive, cached_maps,
                    cached_module_maps, cached_processes, cached_modules, last_enum >>

\* impl Clone for WindowsOs: cached_processes: vec![], cached_modules: vec![]
CloneOs(h, c) ==
    /\ platform = "windows" /\ Running /\ h \in alive /\ c \notin alive
    /\ alive' = alive \cup {c}
    /\ cached_processes' = [cached_processes EXCEPT ![c] = <<>>]
    /\ cached_modules' = [cached_modules EXCEPT ![c] = <<>>]
    /\ last_enum' = [last_enum EXCEPT ![c] = <<>>]
    /\ last' = Call("clone", c, [NoArgs EXCEPT !.address = h], FALSE, 0, <<>>, <<>>, "Ok",
                    NoValue)
    /\ UNCHANGED << platform, overflow_checks, info, maps, snapshot, cached_maps,
                    cached_module_maps >>

-----------------------------------------------------------------------------
(* WindowsOs: the kernel-module operations *)

\* (0..self.cached_modules.len()).map(Address::from)
OsModuleAddresses(mods) == [i \in 1..Len(mods) |-> i - 1]

\* Os::module_address_list_callback(callback): the refresh of cached_modules is
\* commented out, the addresses of the cached list are fed to the callback
OsModuleAddressListCallback(h, stopAt) ==
    /\ platform = "windows" /\ Running /\ h \in alive
    /\ last' = Call("os_module_address_list_callback", h, [NoArgs EXCEPT !.stopAt = stopAt],
                    FALSE, 0, <<>>, FeedInto(OsModuleAddresses(cached_modules[h]), stopAt),
                    "Ok", NoValue)
    /\ UNCHANGED << platform, overflow_checks, info, maps, snapshot, alive, cached_maps,
                    cached_module_maps, cached_processes, cached_modules, last_enum >>

\* Os::module_by_address(_address): todo!() panics
OsModuleByAddress(h, address) ==
    /\ platform = "windows" /\ Running /\ h \in alive
    /\ last' = Call("os_module_by_address", h, [NoArgs EXCEPT !.address = address],
                    FALSE, 0, <<>>, <<>>, "Panic", NoValue)
    /\ UNCHANGED << platform, overflow_checks, info, maps, snapshot, alive, cached_maps,
                    cached_module_maps, cached_processes, cached_modules, last_enum >>

\* Os::module_import_list_callback / module_export_list_callback /
\* module_section_list_callback(_info, _callback): Err(NotImplemented), the
\* module record and the callback unused
OsModuleListStub(h, op) ==
    /\ platform = "windows" /\ Running /\ h \in alive
    /\ last' = Call(op, h, NoArgs, FALSE, 0, <<>>, <<>>, NotImplemented, NoValue)
    /\ UNCHANGED << platform, overflow_checks, info, maps, snapshot, alive, cached_maps,
                    cached_module_maps, cached_processes, cached_modules, last_enum >>

ModuleImportListCallback(h) == OsModuleListStub(h, "module_import_list_callback")
ModuleExportListCallback(h) == OsModuleListStub(h, "module_export_list_callback")
ModuleSectionListCallback(h) == OsModuleListStub(h, "module_section_list_callback")

-----------------------------------------------------------------------------
(* Specification of one mapped_mem_range call over every small mapping list *)

RangePerms == { {"r"}, {"r", "w"}, {"r", "x"}, {"w", "x"} }
RangeAttrs == { Attr(p, 0, 0, 0, Anonymous) : p \in RangePerms }

Gaps == -1..MaxGap
Stops == 0..MaxStop
Windows == { w \in (0..MaxAddr) \X (0..MaxAddr) : w[1] <= w[2] }

LinuxInfo(proc_arch) ==
    [address |-> 7, pid |-> 7, sys_arch |-> "X86_64", proc_arch |-> proc_arch]

InitLinux(mapLists) ==
    /\ platform = "linux"
    /\ overflow_checks \in BOOLEAN
    /\ info \in { LinuxInfo(a) : a \in Archs }
    /\ maps \in mapLists
    /\ snapshot = <<>>
    /\ alive = {1}
    /\ cached_maps = [h \in Handles |-> <<>>]
    /\ cached_module_maps = [h \in Handles |-> <<>>]
    /\ cached_processes = [h \in Handles |-> <<>>]
    /\ cached_modules = [h \in Handles |-> <<>>]
    /\ last_enum = [h \in Handles |-> <<>>]
    /\ last = NoCall

InitRange ==
    /\ InitLinux(MapLists(0, MaxAddr, MaxMaps, RangeAttrs))
    /\ info.proc_arch = info.sys_arch

\* one call per behaviour: the call's result depends on the snapshot and the
\* arguments alone
NextRange ==
    /\ last = NoCall
    /\ \E w \in Windows, gap \in Gaps, stopAt \in Stops, fail \in BOOLEAN :
           MappedMemRange(1, gap, w[1], w[2], stopAt, fail)

SpecRange == InitRange /\ [][NextRange]_vars

-----------------------------------------------------------------------------
(* Claims about mapped_mem_range, checked under SpecRange *)

\* the latest call was a mapped_mem_range whose source answered and whose
\* callback never stops
RangeCallDone ==
    /\ last.op = "mapped_mem_range"
    /\ ~last.failed
    /\ last.args.stopAt = 0

\* the readable raw mappings that overlap the window of the latest call, as the
\* claims state the overlap: re > start and rs < end
OverlappingReadable ==
    SelectSeq(last.source, LAMBDA m : /\ "r" \in m.perms
                               /\ m.address[2] > last.args.start
                               /\ m.address[1] < last.args.end)

\* the intersection of a mapping with the window of the latest call
Intersection(m) ==
    [base |-> Max(m.address[1], last.args.start),
     size |-> Min(m.address[2], last.args.end) - Max(m.address[1], last.args.start),
     page_type |-> [noexec |-> "x" \notin m.perms, write |-> "w" \in m.perms]]

Intersections == [i \in 1..Len(OverlappingReadable) |-> Intersection(OverlappingReadable[i])]

\* C1: with coalescing disabled (negative gap tolerance) every readable mapping
\* that overlaps the window is delivered as exactly its intersection with the
\* window: base = max(rs, start) and base + size = min(re, end).
C1_ClipDeliversIntersection ==
    (RangeCallDone /\ last.args.gap < 0)
        => /\ last.result = "Unit"
           /\ Delivered(last.calls) = Intersections

\* the ranges the claimed merge rule yields from the intersections: a then b are
\* one range [a.base, b.end) iff g >= 0, a.end + g >= b.base and the flags agree
RECURSIVE MergeRule(_, _, _, _, _)
MergeRule(rs, i, acc, out, g) ==
    IF i > Len(rs) THEN Append(out, acc)
    ELSE IF g >= 0 /\ acc.base + acc.size + g >= rs[i].base /\ acc.page_type = rs[i].page_type
         THEN MergeRule(rs, i + 1,
                        [acc EXCEPT !.size = rs[i].base + rs[i].size - acc.base], out, g)
         ELSE MergeRule(rs, i + 1, rs[i], Append(out, acc), g)

Merged(rs, g) == IF rs = <<>> THEN <<>> ELSE MergeRule(rs, 2, rs[1], <<>>, g)

\* C2: consecutive readable in-window ranges a, b are delivered as one range
\* [a.base, b.end) iff a.end + g >= b.base and their flags are identical, and as
\* two ranges in address order otherwise; with g < 0 nothing is merged.
C2_MergeIffGapAndFlags ==
    RangeCallDone
        => /\ last.result = "Unit"
           /\ Delivered(last.calls) = Merged(Intersections, last.args.gap)

\* what remains of C2 beside the range ends: the same ranges are merged and the
\* same bases delivered as by the claimed rule, in a build that wraps on overflow
MergeDecisionsAsClaimed ==
    (RangeCallDone /\ ~overflow_checks)
        => LET d == Delivered(last.calls)
               e == Merged(Intersections, last.args.gap)
           IN  /\ Len(d) = Len(e)
               /\ \A i \in 1..Len(d) : d[i].base = e[i].base /\ d[i].page_type = e[i].page_type
               /\ \A i \in 1..(Len(d) - 1) : d[i] = e[i]

\* the latest call was a mapped_mem_range whose source answered
RangeAnswered == last.op = "mapped_mem_range" /\ ~last.failed

\* what the latest mapped_mem_range did, in the shape of RunRanges
RangeOutcome == [calls |-> last.calls, panic |-> last.result = "Panic"]

\* the latest call, made again on another mapping list
RangesAgainOn(ms) ==
    RunRanges(ms, last.args.gap, last.args.start, last.args.end, last.args.stopAt)

HasRead(m) == "r" \in m.perms
Disjoint(m) == m.address[2] <= last.args.start \/ m.address[1] >= last.args.end

C12_DisjointMappingsDeliverNothing ==
    RangeAnswered
        => LET inside == SelectSeq(last.source, LAMBDA m : ~Disjoint(m) /\ HasRead(m)) IN
           /\ RangesAgainOn(SelectSeq(last.source, LAMBDA m : ~Disjoint(m))) = RangeOutcome
           /\ Len(last.calls) <= Len(inside)
           /\ \A i \in 1..Len(last.calls) :
                  LET d == last.calls[i].item IN
                  \E j \in 1..Len(inside) :
                      /\ d.base = Max(inside[j].address[1], last.args.start)
                      /\ d.base < inside[j].address[2]

\* C12's case: a readable mapping ends where the window starts, another starts
\* where the window ends, and the one between them was delivered alone
C12_Witness ==
    /\ RangeAnswered /\ last.result = "Unit" /\ last.args.stopAt = 0
    /\ \E j, k \in 1..Len(last.source) :
           /\ HasRead(last.source[j]) /\ last.source[j].address[2] = last.args.start
           /\ HasRead(last.source[k]) /\ last.source[k].address[1] = last.args.end
    /\ Len(last.calls) = 1

\* the specified pipeline, stage 1: the readable mappings as normalized regions
Normalized(ms) ==
    LET rs == SelectSeq(ms, HasRead) IN
    [i \in 1..Len(rs) |-> [base |-> rs[i].address[1],
                           size |-> rs[i].address[2] - rs[i].address[1],
                           page_type |-> [noexec |-> "x" \notin rs[i].perms,
                                          write |-> "w" \in rs[i].perms]]]

\* stage 3: a coalesced region against the window: nothing if region.end <= start
\* or region.start >= end or the window is empty, the intersection otherwise
RECURSIVE ClipRegions(_, _, _, _, _)
ClipRegions(rs, i, out, start, end) ==
    IF i > Len(rs) THEN out
    ELSE LET r == rs[i] IN
         IF r.base + r.size <= start \/ r.base >= end \/ start >= end
         THEN ClipRegions(rs, i + 1, out, start, end)
         ELSE ClipRegions(rs, i + 1,
                          Append(out, [r EXCEPT !.base = Max(r.base, start),
                                                !.size = Min(r.base + r.size, end)
                                                             - Max(r.base, start)]),
                          start, end)

\* normalize -> coalesce -> clip
SpecifiedPipeline(ms, g, start, end) ==
    ClipRegions(Merged(Normalized(ms), g), 1, <<>>, start, end)

\* C16: for every gap tolerance g >= 0 the call delivers what the specified
\* pipeline yields: all readable regions coalesced first, each coalesced region
\* then intersected with the window.
C16_DeliversNormalizeCoalesceClip ==
    (RangeCallDone /\ last.args.gap >= 0)
        => /\ last.result = "Unit"
           /\ Delivered(last.calls)
                  = SpecifiedPipeline(last.source, last.args.gap, last.args.start,
                                      last.args.end)

-----------------------------------------------------------------------------
(* Specification of one module enumeration, then one resolution, over every   *)
(* small mapping list                                                         *)

\* file-backed mappings of three files (two share the device, two the inode
\* number), one of them at two file offsets, and an anonymous mapping
ModuleAttrs ==
    { Attr({"r", "w"}, 0, 0, 0, Anonymous),
      Attr({"r"}, 0, 1, 1, PathOf("a.so")),
      Attr({"r", "x"}, 1, 1, 1, PathOf("a.so")),
      Attr({"r"}, 0, 1, 2, PathOf("b.so")),
      Attr({"r"}, 0, 2, 1, PathOf("c.so")) }

TargetArchs == Archs \cup {"None"}
ModuleAddrs == 0..MaxMaps

\* the module operations do no arithmetic that can overflow
InitModules ==
    /\ InitLinux(MapLists(0, MaxAddr, MaxMaps, ModuleAttrs))
    /\ ~overflow_checks

NextModules ==
    \/ /\ last = NoCall
       /\ \E t \in TargetArchs, stopAt \in Stops, fail \in BOOLEAN :
              ModuleAddressListCallback(1, t, stopAt, fail)
    \/ /\ last.op # "module_by_address"
       /\ \E a \in ModuleAddrs, arch \in Archs : ModuleByAddress(1, a, arch)

SpecModules == InitModules /\ [][NextModules]_vars

-----------------------------------------------------------------------------
(* Claims about the module list *)

\* the modules the claimed rule yields: file-backed mappings only; a mapping
\* extends the module before it iff it starts where that module ends and has the
\* same device and the same inode; the sizes add up
RECURSIVE ModuleRule(_, _, _, _)
ModuleRule(fs, i, acc, out) ==
    IF i > Len(fs) THEN Append(out, acc)
    ELSE LET m == fs[i]
             one == [base |-> m.address[1], size |-> m.address[2] - m.address[1],
                     end |-> m.address[2], dev |-> m.dev, inode |-> m.inode]
         IN  IF acc.end = m.address[1] /\ acc.dev = m.dev /\ acc.inode = m.inode
             THEN ModuleRule(fs, i + 1,
                             [acc EXCEPT !.size = acc.size + one.size, !.end = one.end], out)
             ELSE ModuleRule(fs, i + 1, one, Append(out, acc))

FileBacked(ms) == SelectSeq(ms, LAMBDA m : m.pathname.kind = "Path")

ClaimedModules(ms) ==
    LET fs == FileBacked(ms) IN
    IF fs = <<>> THEN <<>>
    ELSE ModuleRule(fs, 2, [base |-> fs[1].address[1],
                            size |-> fs[1].address[2] - fs[1].address[1],
                            end |-> fs[1].address[2], dev |-> fs[1].dev,
                            inode |-> fs[1].inode], <<>>)

\* the latest call was a module enumeration whose source answered
ModuleEnumDone == last.op = "module_address_list_callback" /\ ~last.failed

\* C3: the module list is built from file-backed mappings only; two consecutive
\* file-backed mappings are one module iff the first ends where the second
\* starts and device and inode agree, whatever their offsets; a merged module
\* starts at the first mapping's start and its size is the sum of the sizes.
C3_ModulesMergeByAddressDevInode ==
    ModuleEnumDone
        => LET mods == cached_module_maps[last.h]
               want == ClaimedModules(last.source)
           IN  /\ Len(mods) = Len(want)
               /\ \A i \in 1..Len(mods) :
                      /\ mods[i].address[1] = want[i].base
                      /\ mods[i].address[2] - mods[i].address[1] = want[i].size
                      /\ mods[i].dev = want[i].dev
                      /\ mods[i].inode = want[i].inode
                      /\ mods[i].pathname.kind = "Path"

\* C3's case: a non-file mapping lies beside file-backed ones, and two mappings
\* of one file at different offsets were merged into one module
C3_Witness ==
    /\ ModuleEnumDone
    /\ \E i \in 1..Len(maps) : maps[i].pathname.kind # "Path"
    /\ \E i \in 1..(Len(maps) - 1) :
           /\ maps[i].pathname.kind = "Path" /\ maps[i + 1].pathname.kind = "Path"
           /\ maps[i].address[2] = maps[i + 1].address[1]
           /\ maps[i].dev = maps[i + 1].dev /\ maps[i].inode = maps[i + 1].inode
           /\ maps[i].offset # maps[i + 1].offset
           /\ \E j \in 1..Len(cached_module_maps[last.h]) :
                  cached_module_maps[last.h][j].address = <<maps[i].address[1], maps[i + 1].address[2]>>

\* C5: after a successful enumeration with no architecture filter and a callback
\* that never stops, the callback has received the addresses 0..N-1 in ascending
\* order, N the number of modules of the fresh snapshot, and resolving address i
\* with the system architecture returns the i-th module: address i, its base,
\* and its size = end - start.
C5_AddressesResolveToModules ==
    (ModuleEnumDone /\ last.args.arch = "None" /\ last.args.stopAt = 0)
        => LET want == ClaimedModules(last.source)
               got == Delivered(last.calls)
           IN  /\ last.result = "Ok"
               /\ Len(got) = Len(want)
               /\ \A i \in 1..Len(got) : got[i].address = i - 1
               /\ \A i \in 0..(Len(want) - 1) :
                      LET r == ResolveModule(cached_module_maps[last.h], i, info.sys_arch) IN
                      /\ r.result = "Ok"
                      /\ r.value.address = i
                      /\ r.value.base = want[i + 1].base
                      /\ r.value.size = want[i + 1].end - want[i + 1].base

\* C5's case: an unfiltered, unstopped enumeration delivered several addresses
C5_Witness ==
    /\ ModuleEnumDone /\ last.args.arch = "None" /\ last.args.stopAt = 0
    /\ Len(last.calls) >= 2
    /\ Len(maps) > Len(last.calls)

\* C17: every (synthetic address, architecture) pair a module enumeration
\* delivered to the callback resolves, passed unchanged to resolve_module right
\* after the enumeration, to the record of that address, also when the process
\* architecture is not the system architecture.
C17_DeliveredPairsResolve ==
    ModuleEnumDone
        => \A i \in 1..Len(last.calls) :
               LET d == last.calls[i].item
                   r == ResolveModule(cached_module_maps[last.h], d.address, d.arch)
               IN  r.result = "Ok" /\ r.value.address = d.address

-----------------------------------------------------------------------------
(* Specification of the handles' life: enumerations, resolutions and clones,  *)
(* while the inspected system changes                                         *)

\* the inspected process with n modules loaded: module k is file k, mapped
\* readable at [3(k-1), 3(k-1)+2)
LifeFile(k) == <<"a.so", "b.so", "c.so", "d.so">>[k]
LifeMaps(n) == [k \in 1..n |-> MemoryMap(3 * (k - 1), 3 * (k - 1) + 2, {"r"}, 0, 1, k,
                                         PathOf(LifeFile(k)))]
\* the process before it loads a module, with one module, and with all of them
LifeMapLists == { LifeMaps(n) : n \in {0, 1, MaxMods} }
\* a window over everything, and one that cuts into the first two mappings
LifeWindows == { <<0, 3 * MaxMods>>, <<1, 4>> }
\* coalescing disabled, or bridging the gap between two mappings
LifeGaps == {-1, MaxGap}
\* the callback never stops, or stops at the first item
LifeStops == {0, 1}

\* the running processes: pid k runs the k-th executable
ExeFile(pid) == <<"a.exe", "b.exe", "c.exe", "d.exe">>[pid]
ProcessEntries == { ProcessEntry(pid, <<"C:", ExeFile(pid)>>) : pid \in 1..MaxProcs }
\* the snapshot lists each process once, here in ascending pid order
RECURSIVE ProcLists(_, _)
ProcLists(lo, n) ==
    IF n = 0 THEN {<<>>}
    ELSE {<<>>} \cup
         UNION { { <<e>> \o rest : rest \in ProcLists(e.th32ProcessID + 1, n - 1) }
                 : e \in { x \in ProcessEntries : x.th32ProcessID >= lo } }
Snapshots == ProcLists(1, MaxProcs)
Pids == 1..MaxProcs

\* WindowsOs::default(): arch X86(64), empty caches
InitWindows ==
    /\ platform = "windows"
    /\ overflow_checks = FALSE
    /\ info = [base |-> 0, size |-> 0, arch |-> "X86_64"]
    /\ maps = <<>>
    /\ snapshot \in Snapshots
    /\ alive = {1}
    /\ cached_maps = [h \in Handles |-> <<>>]
    /\ cached_module_maps = [h \in Handles |-> <<>>]
    /\ cached_processes = [h \in Handles |-> <<>>]
    /\ cached_modules = [h \in Handles |-> <<>>]
    /\ last_enum = [h \in Handles |-> <<>>]
    /\ last = NoCall

Init == InitLinux(LifeMapLists) \/ InitWindows

\* the inspected process maps or unmaps memory
MapsChange ==
    /\ platform = "linux" /\ Running
    /\ maps' \in LifeMapLists \ {maps}
    /\ UNCHANGED << platform, overflow_checks, info, snapshot, alive, cached_maps,
                    cached_module_maps, cached_processes, cached_modules, last_enum, last >>

\* processes start and exit
SnapshotChange ==
    /\ platform = "windows" /\ Running
    /\ snapshot' \in Snapshots \ {snapshot}
    /\ UNCHANGED << platform, overflow_checks, info, maps, alive, cached_maps,
                    cached_module_maps, cached_processes, cached_modules, last_enum, last >>

Next ==
    \/ \E h \in Handles, t \in TargetArchs, stopAt \in LifeStops, fail \in BOOLEAN :
           ModuleAddressListCallback(h, t, stopAt, fail)
    \/ \E h \in Handles, a \in 0..MaxMods, arch \in Archs : ModuleByAddress(h, a, arch)
    \/ \E h \in Handles, w \in LifeWindows, gap \in LifeGaps, stopAt \in LifeStops,
          fail \in BOOLEAN :
           MappedMemRange(h, gap, w[1], w[2], stopAt, fail)
    \/ \E h \in Handles, c \in Handles, fail \in BOOLEAN : CloneProcess(h, c, fail)
    \/ \E h \in Handles, stopAt \in LifeStops, fail \in BOOLEAN :
           ProcessAddressListCallback(h, stopAt, fail)
    \/ \E h \in Handles, a \in Pids \cup {0} : ProcessInfoByAddress(h, a)
    \/ \E h \in Handles, c \in Handles : CloneOs(h, c)
    \/ MapsChange
    \/ SnapshotChange

Spec == Init /\ [][Next]_vars

-----------------------------------------------------------------------------
(* Claims about the handles' life, checked under Spec *)

EnumOps == {"module_address_list_callback", "mapped_mem_range",
            "process_address_list_callback"}

\* the items the latest enumeration had to offer, in discovery order: module
\* addresses 0, 1, ..; the snapshot's process ids; the ranges an unstopped run
\* of the same call delivers
DiscoveryOrder ==
    CASE last.op = "module_address_list_callback" ->
             IF last.failed \/ ~(last.args.arch = "None" \/ last.args.arch = info.sys_arch)
             THEN <<>>
             ELSE [i \in 1..Len(ClaimedModules(last.source)) |->
                      [address |-> i - 1, arch |-> info.proc_arch]]
      [] last.op = "process_address_list_callback" ->
             [i \in 1..Len(last.source) |-> last.source[i].th32ProcessID]
      [] last.op = "mapped_mem_range" ->
             IF last.failed THEN <<>>
             ELSE Delivered(RunRanges(last.source, last.args.gap, last.args.start,
                                      last.args.end, 0).calls)
      [] OTHER -> <<>>

IsPrefix(a, b) == Len(a) <= Len(b) /\ \A i \in 1..Len(a) : a[i] = b[i]

\* C4: each enumeration delivers its items in discovery order; once the callback
\* has answered "stop" it is not invoked again in that call; a callback that
\* stops at the first item receives exactly one item.
C4_StopEndsDelivery ==
    last.op \in EnumOps
        => LET got == Delivered(last.calls)
               all == DiscoveryOrder
           IN  /\ \A i \in 1..(Len(last.calls) - 1) : last.calls[i].ret
               /\ IsPrefix(got, all)
               /\ last.args.stopAt = 0 => got = all
               /\ (last.args.stopAt = 1 /\ all # <<>>) => Len(got) = 1
               /\ last.op = "mapped_mem_range" =>
                      \A i \in 1..(Len(got) - 1) : got[i].base < got[i + 1].base

\* C4's case: the callback stopped at the first of several ranges
C4_Witness ==
    /\ last.op = "mapped_mem_range"
    /\ last.args.stopAt = 1
    /\ Len(DiscoveryOrder) >= 2
    /\ Len(last.calls) = 1 /\ ~last.calls[1].ret

\* C6: resolve_process answers from the latest enumeration: it returns a record
\* only for an address that enumeration produced, the record is the one that
\* enumeration recorded, and any other address fails with NotFound.
C6_ResolveFromLatestEnumeration ==
    last.op = "process_info_by_address"
        => LET recent == last_enum[last.h]
               hits == { i \in 1..Len(recent) : recent[i].address = last.args.address }
           IN  IF hits = {} THEN last.result = NotFound
               ELSE last.result = "Ok" => \E i \in hits : last.value = recent[i]

\* C7: a clone starts with empty caches (so resolve_module on it fails with
\* NotFound for every address), and an enumeration on one handle leaves the
\* caches of the other handles as they were.
C7_CloneStartsEmpty ==
    [][ /\ \A c \in alive' \ alive :
              /\ cached_maps'[c] = <<>>
              /\ cached_module_maps'[c] = <<>>
              /\ cached_processes'[c] = <<>>
              /\ cached_modules'[c] = <<>>
              /\ platform = "linux" =>
                     \A a \in 0..MaxMods, arch \in Archs :
                         ResolveModule(cached_module_maps'[c], a, arch).result = NotFound
        /\ (last'.op \in EnumOps) =>
               \A g \in Handles \ {last'.h} :
                   /\ cached_maps'[g] = cached_maps[g]
                   /\ cached_module_maps'[g] = cached_module_maps[g]
                   /\ cached_processes'[g] = cached_processes[g]
      ]_vars

\* the part of C7 that holds: an enumeration on one handle leaves the caches of
\* every handle that existed before as they were
OtherHandlesUntouched ==
    [][ (last'.op \in EnumOps) =>
            \A g \in Handles \ {last'.h} :
                /\ cached_maps'[g] = cached_maps[g]
                /\ cached_module_maps'[g] = cached_module_maps[g]
                /\ cached_processes'[g] = cached_processes[g]
      ]_vars

\* C8: when the raw-mapping source or the process-snapshot source fails during
\* an enumeration, the call ends with a typed error, which no successful
\* enumeration returns; every enumeration queries its source exactly once.
C8_SourceFailureIsAnError ==
    last.op \in EnumOps
        => /\ last.queries = 1
           /\ last.failed => (last.result \in ErrorKinds /\ last.calls = <<>>)
           /\ ~last.failed => last.result \notin ErrorKinds

\* C9: resolve_module with an architecture other than the system architecture
\* fails with NotFound for every address and every cache state, and leaves the
\* caches unchanged.
C9_WrongArchIsNotFound ==
    [][ (last'.op = "module_by_address" /\ last'.args.arch # info.sys_arch)
            => /\ last'.result = NotFound
               /\ last'.value = NoValue
               /\ cached_maps' = cached_maps
               /\ cached_module_maps' = cached_module_maps
      ]_vars

\* C9's case: the process architecture, which differs from the system's, was
\* passed with address 0 while the cache holds a module at 0
C9_Witness ==
    /\ last.op = "module_by_address"
    /\ last.args.arch # info.sys_arch /\ last.args.arch = info.proc_arch
    /\ last.args.address = 0
    /\ Len(cached_module_maps[last.h]) >= 1
    /\ last.result = NotFound

\* C10: resolve_module with the system architecture fails with NotFound, and
\* neither aborts nor returns a record, whenever the address is at or beyond the
\* length of the module list the handle computed last (empty before any
\* enumeration).
C10_OutOfRangeIsNotFound ==
    (/\ last.op = "module_by_address"
     /\ last.args.arch = info.sys_arch
     /\ last.args.address >= Len(cached_module_maps[last.h]))
        => last.result = NotFound /\ last.value = NoValue

\* C10's case: the address is one past the end of a non-empty module list
C10_Witness ==
    /\ last.op = "module_by_address"
    /\ last.args.arch = info.sys_arch
    /\ last.args.address = Len(cached_module_maps[last.h])
    /\ last.args.address >= 1
    /\ last.result = NotFound

\* C13: with the filter Some(a) and a callback that never stops, the callback
\* receives all N module addresses when a is the system architecture and none
\* when it is not; either way the call succeeds and the handle's module list is
\* the one computed from the fresh snapshot.
C13_ArchFilterIsOneGate ==
    (ModuleEnumDone /\ last.args.arch \in Archs /\ last.args.stopAt = 0)
        => LET want == ClaimedModules(last.source)
               got == Delivered(last.calls)
               mods == cached_module_maps[last.h]
           IN  /\ last.result = "Ok"
               /\ cached_maps[last.h] = last.source
               /\ Len(mods) = Len(want)
               /\ \A i \in 1..Len(mods) : mods[i].address = <<want[i].base, want[i].end>>
               /\ IF last.args.arch = info.sys_arch
                  THEN /\ Len(got) = Len(want)
                       /\ \A i \in 1..Len(got) : got[i].address = i - 1
                  ELSE got = <<>>

\* C13's case: the filter is the process architecture, which is not the
\* system's; nothing was delivered although the module list, recomputed after
\* the process changed, holds several modules (the other handle still holds
\* the list computed before the change)
C13_Witness ==
    /\ ModuleEnumDone /\ last.args.stopAt = 0
    /\ last.args.arch = info.proc_arch /\ last.args.arch # info.sys_arch
    /\ last.calls = <<>>
    /\ Len(cached_module_maps[last.h]) >= 2
    /\ \E g \in alive \ {last.h} :
           /\ cached_module_maps[g] # <<>>
           /\ cached_module_maps[g] # cached_module_maps[last.h]

-----------------------------------------------------------------------------
(* Specification of one module enumeration, then one mapped_mem_range call,   *)
(* over every small list of file-backed and anonymous mappings                *)

InitCoalesce ==
    /\ InitLinux(MapLists(0, MaxAddr, MaxMaps, ModuleAttrs))
    /\ info.proc_arch = info.sys_arch

NextCoalesce ==
    \/ /\ last = NoCall
       /\ ModuleAddressListCallback(1, "None", 0, FALSE)
    \/ /\ last.op = "module_address_list_callback"
       /\ \E w \in Windows, gap \in Gaps : MappedMemRange(1, gap, w[1], w[2], 0, FALSE)

SpecCoalesce == InitCoalesce /\ [][NextCoalesce]_vars

\* the elements the chain of the latest mapped_mem_range handed to coalesce
RangeElements ==
    LET src == Eligible(last.source, last.args.start, last.args.end) IN
    [i \in 1..Len(src) |-> Clipped(src[i], last.args.start, last.args.end)]

\* C14: the module coalescer applied to the module list it produced, and the
\* range coalescer (same gap tolerance) applied to the range sequence it
\* produced, yield that sequence unchanged.
C14_CoalescersAreIdempotent ==
    /\ LET mods == cached_module_maps[1] IN
       /\ ModuleEnumDone => mods = CoalesceModules(SelectSeq(last.source, IsPath))
       /\ CoalesceModules(mods) = mods
    /\ (RangeAnswered /\ last.result = "Unit")
           => LET once == CoalesceRanges(RangeElements, last.args.gap) IN
              /\ Delivered(last.calls) = [i \in 1..Len(once) |-> IntoMemoryRange(once[i])]
              /\ CoalesceRanges(once, last.args.gap) = once

\* C14's case: both coalescers merged some of their input and left several
\* records: fewer modules than file-backed mappings, fewer ranges than readable
\* mappings in the window
C14_Witness ==
    /\ RangeAnswered /\ last.result = "Unit" /\ last.args.gap >= 0
    /\ Len(cached_module_maps[1]) >= 2
    /\ Len(cached_module_maps[1]) < Len(SelectSeq(cached_maps[1], IsPath))
    /\ Len(last.calls) >= 2
    /\ Len(last.calls) < Len(RangeElements)

-----------------------------------------------------------------------------
(* Specification of two module enumerations in a row on an unchanged process  *)

\* The first call passes no filter.  The second passes the system architecture,
\* which lets every module through as no filter does, and the same callback; so
\* a state whose latest call carries that filter is the state after a second
\* enumeration.
NextRepeat ==
    \/ /\ last = NoCall
       /\ \E stopAt \in Stops : ModuleAddressListCallback(1, "None", stopAt, FALSE)
    \/ /\ last.op = "module_address_list_callback" /\ last.args.arch = "None"
       /\ ModuleAddressListCallback(1, info.sys_arch, last.args.stopAt, FALSE)

SpecRepeat == InitModules /\ [][NextRepeat]_vars

\* C15: a module enumeration that follows another one on the same handle, the
\* process's mappings unchanged and the callback the same, delivers the same
\* sequence of synthetic addresses, and resolve_module answers every address
\* after it as it did before it.
C15_ReenumerationIsDeterministic ==
    [][ (/\ last.op = "module_address_list_callback" /\ ~last.failed
         /\ last'.op = "module_address_list_callback" /\ ~last'.failed
         /\ last'.h = last.h
         /\ last'.source = last.source
         /\ last'.args.stopAt = last.args.stopAt)
            => /\ Delivered(last'.calls) = Delivered(last.calls)
               /\ \A a \in ModuleAddrs, arch \in Archs :
                      ResolveModule(cached_module_maps'[last.h], a, arch)
                          = ResolveModule(cached_module_maps[last.h], a, arch)
      ]_vars

\* C15's case: the second enumeration has delivered several addresses, as many
\* as the handle holds modules
C15_Witness ==
    /\ ModuleEnumDone /\ last.args.arch = info.sys_arch /\ last.args.stopAt = 0
    /\ Len(last.calls) >= 2
    /\ Len(last.calls) = Len(cached_module_maps[last.h])

\* C18: after a process enumeration, cut short or not, every address delivered
\* to the callback resolves via resolve_process, and the call has added to the
\* cache the delivered processes only, not those the walk had not reached.
C18_DeliveredProcessesAreCached ==
    (last.op = "process_address_list_callback" /\ ~last.failed)
        => LET got == Delivered(last.calls)
               pushed == last_enum[last.h]
           IN  /\ \A i \in 1..Len(got) :
                      LET r == FindProcess(cached_processes[last.h], got[i]) IN
                      r.result = "Ok" /\ r.value.address = got[i]
               /\ Len(pushed) = Len(got)
               /\ \A i \in 1..Len(got) : pushed[i].address = got[i]
               /\ IsPrefix(got, [i \in 1..Len(last.source) |-> last.source[i].th32ProcessID])

\* C18's case: the callback stopped at the first of several processes
C18_Witness ==
    /\ last.op = "process_address_list_callback" /\ ~last.failed
    /\ last.args.stopAt = 1
    /\ Len(last.source) >= 2
    /\ Len(last.calls) = 1
    /\ Len(last_enum[last.h]) = 1

\* C19: a module enumeration whose raw-mapping source fails returns an error,
\* invokes the callback zero times and leaves the cached raw-mapping list and
\* the cached module list as they were, so resolve_module answers every address
\* after it as before it.
C19_FailedEnumerationKeepsCaches ==
    [][ (last'.op = "module_address_list_callback" /\ last'.failed)
            => /\ last'.result \in ErrorKinds
               /\ last'.calls = <<>>
               /\ cached_maps' = cached_maps
               /\ cached_module_maps' = cached_module_maps
               /\ \A a \in 0..MaxMods, arch \in Archs :
                      ResolveModule(cached_module_maps'[last'.h], a, arch)
                          = ResolveModule(cached_module_maps[last'.h], a, arch)
      ]_vars

\* C19's case: the enumeration failed on a handle that holds modules of a
\* snapshot the process has since moved away from
C19_Witness ==
    /\ last.op = "module_address_list_callback" /\ last.failed
    /\ last.result = UnableToReadDir
    /\ cached_module_maps[last.h] # <<>>
    /\ cached_maps[last.h] # maps

\* C20: mapped_mem_range replaces the handle's cached raw-mapping list with the
\* fresh snapshot and leaves every cached module list unchanged, so
\* resolve_module answers every address and architecture after the call as
\* before it.
C20_RangeCallKeepsModuleList ==
    [][ (last'.op = "mapped_mem_range")
            => /\ cached_module_maps' = cached_module_maps
               /\ ~last'.failed => cached_maps'[last'.h] = last'.source
               /\ \A a \in 0..MaxMods, arch \in Archs :
                      ResolveModule(cached_module_maps'[last'.h], a, arch)
                          = ResolveModule(cached_module_maps[last'.h], a, arch)
      ]_vars

\* C20's case: the mappings changed after the module enumeration; the range
\* call has stored the fresh snapshot while the module list is still the one
\* of the earlier snapshot
C20_Witness ==
    /\ last.op = "mapped_mem_range" /\ ~last.failed /\ last.result = "Unit"
    /\ cached_maps[last.h] = last.source
    /\ cached_module_maps[last.h] # <<>>
    /\ cached_module_maps[last.h] # ModuleMaps(cached_maps[last.h])

-----------------------------------------------------------------------------
(* Specification of the OS-level handle with its kernel-module operations      *)

NextKernel ==
    \/ \E h \in Handles, stopAt \in LifeStops : OsModuleAddressListCallback(h, stopAt)
    \/ \E h \in Handles, a \in 0..MaxMods : OsModuleByAddress(h, a)
    \/ \E h \in Handles : ModuleImportListCallback(h)
    \/ \E h \in Handles : ModuleExportListCallback(h)
    \/ \E h \in Handles : ModuleSectionListCallback(h)
    \/ \E h \in Handles, stopAt \in LifeStops, fail \in BOOLEAN :
           ProcessAddressListCallback(h, stopAt, fail)
    \/ \E h \in Handles, c \in Handles : CloneOs(h, c)
    \/ SnapshotChange

SpecKernel == InitWindows /\ [][NextKernel]_vars

KernelListStubs == {"module_import_list_callback", "module_export_list_callback",
                    "module_section_list_callback"}

\* C21: on the OS-level handle the module import list, export list, section
\* list and the kernel module resolve-by-address end with the typed error
\* NotImplemented, invoke no callback and do not abort the program; the kernel
\* module enumeration delivers zero items.
C21_KernelModuleOpsAreNotImplemented ==
    /\ last.op \in KernelListStubs \cup {"os_module_by_address"}
           => /\ last.result = NotImplemented
              /\ last.calls = <<>>
              /\ Running
    /\ last.op = "os_module_address_list_callback"
           => last.result = "Ok" /\ last.calls = <<>>

\* what holds of C21: everything but the resolve-by-address
KernelListStubsAsClaimed ==
    /\ last.op \in KernelListStubs
           => /\ last.result = NotImplemented
              /\ last.calls = <<>>
              /\ Running
    /\ last.op = "os_module_address_list_callback"
           => last.result = "Ok" /\ last.calls = <<>>

====
